---- MODULE Spec2Model ----
(***************************************************************************)
(* Model of services/nlp_analyzer.py: the NLPAnalyzer orchestrator.        *)
(*                                                                         *)
(* Real numbers (confidences, thresholds) are integers in hundredths:      *)
(* 75 is 0.75, 100 is 1.0, -10 is -0.1.  The two collaborators (classifier *)
(* and embedding generator) are black boxes: each call either raises or    *)
(* returns a value drawn from a small set.                                 *)
(***************************************************************************)
EXTENDS Integers, Sequences, FiniteSets, TLC

\* ---------------------------------------------------------------- bounds
\* Longest list of clauses handed to analyze_clauses.
MaxClauses == 2
\* Longest list of records handed to the triage helpers.
MaxAnalyses == 3

\* ------------------------------------------------------- program constants
\* Default of the constructor's confidence_threshold parameter (0.75).
DefaultThreshold == 75
\* Bounds of the range accepted by set_confidence_threshold (0.0 and 1.0).
ThresholdMin == 0
ThresholdMax == 100
\* Confidence of the Stage-1 substitution triple (0.5).
SubstituteConfidence == 50
\* Confidence of the fallback record (0.0).
FallbackConfidence == 0

Min(a, b) == IF a <= b THEN a ELSE b

\* Python's None, where a vector may stand.
None == << "None" >>

\* ------------------------------------------------------------ input sets
\* Clauses a caller may submit: clause_id unique, texts may repeat.
\* The order the pool is submitted in, and the longest list it allows.
PoolOrder ==
    << [clause_id |-> "a", text |-> "t1"],
       [clause_id |-> "b", text |-> "t2"],
       [clause_id |-> "c", text |-> "t1"],
       [clause_id |-> "d", text |-> "t3"] >>

Range(s) == { s[k] : k \in 1..Len(s) }

Reverse(s) == [ k \in 1..Len(s) |-> s[Len(s) + 1 - k] ]

\* The lists of clauses analyze_clauses is called with: the empty list, and
\* for each length up to MaxClauses a list in pool order and one in reverse
\* order.
ClauseLists ==
    { SubSeq(PoolOrder, 1, n) : n \in 0..Min(MaxClauses, Len(PoolOrder)) } \cup
    { SubSeq(Reverse(PoolOrder), 1, n) : n \in 0..Min(MaxClauses, Len(PoolOrder)) }

\* What classifier.predict returns for a text when it does not raise:
\* (clause_type, confidence, alternatives).  The classifier is a
\* deterministic black box, so the triple is a function of the text; the
\* three texts give a confidence above, at and below the default threshold.
PredictOf(text) ==
    CASE text = "t1" -> << "Confidentiality", 92, << <<"Confidentiality", 92>>, <<"NDA", 5>> >> >>
      [] text = "t2" -> << "NDA", 75, << <<"NDA", 75>>, <<"Other", 20>> >> >>
      [] OTHER       -> << "Termination", 30, << <<"Termination", 30>>, <<"NDA", 28>> >> >>

\* The vector the embedding generator computes for a text: the generator is
\* a deterministic black box, so the vector is an uninterpreted function of the
\* text.
EmbeddingOf(text) == << "embedding", text >>

\* Values passed as a threshold, to the constructor or to
\* set_confidence_threshold: both endpoints, the default, one value on each
\* side of the range.
ThresholdValues == { -10, ThresholdMin, DefaultThreshold, ThresholdMax, 110 }

VARIABLES
    threshold,              \* self.confidence_threshold
    setCall,                \* the last set_confidence_threshold call: its argument and outcome
    pc,                     \* position of the analyze_clauses call
    clauses,                \* its argument
    i,                      \* index of the loop it is in
    classifications,        \* local list of Stage 1
    embeddings,             \* local value of Stage 2: [iterable, items]
    analyses,               \* local list of Stage 3
    classification_errors,
    embedding_errors,
    outcome,                \* how the call ended: "none", "returned", "raised"
    result,                 \* the list it returned
    faults,                 \* history of the call: what each collaborator call did
    calls,                  \* the collaborator calls of the call, in order: <<method, clause_id>>
    log,                    \* the messages the call has logged: <<level, message, clause_id>>
    single,                 \* the last analyze_clause call: argument, collaborator calls, outcome
    analysesArg,            \* the list of records the caller hands to the triage helpers
    low,                    \* the last get_low_confidence_clauses call: threshold and list read, list returned
    summary                 \* the last get_analysis_summary call: threshold and list read, dict returned

vars == << threshold, setCall, pc, clauses, i, classifications, embeddings,
           analyses, classification_errors, embedding_errors, outcome, result,
           faults, calls, log, single, analysesArg, low, summary >>

\* What an analyze_clauses step leaves alone.
callerVars == << threshold, setCall, single, analysesArg, low, summary >>

\* The state of one analyze_clauses call.
batchVars == << pc, clauses, i, classifications, embeddings, analyses,
                classification_errors, embedding_errors, outcome, result, faults,
                calls, log >>

\* ------------------------------------------------------------ data records
\* The ClauseAnalysis record (models/clause_analysis.py): six fields.
ClauseAnalysis(clause_id, clause_text, clause_type, confidence_score, emb, alternative_types) ==
    [ clause_id |-> clause_id,
      clause_text |-> clause_text,
      clause_type |-> clause_type,
      confidence_score |-> confidence_score,
      embeddings |-> emb,
      alternative_types |-> alternative_types ]

\* Variant of _create_fallback_analysis that reuses the Stage-1 substitute's
\* confidence.
FallbackWithSubstituteConfidence(clause, error_msg) ==
    ClauseAnalysis(clause.clause_id, clause.text, "Other", SubstituteConfidence,
                   None, << <<"Other", SubstituteConfidence>> >>)

\* _create_fallback_analysis(clause, error_msg)
_create_fallback_analysis(clause, error_msg) ==
    ClauseAnalysis(clause.clause_id, clause.text, "Other", FallbackConfidence,
                   None, << <<"Other", FallbackConfidence>> >>)

\* Variant of Stage1Substitute with the fallback record's confidence.
Stage1SubstituteZero ==
    << "Other", FallbackConfidence, << <<"Other", FallbackConfidence>> >> >>

\* The triple Stage 1 appends when the classifier raises.
Stage1Substitute ==
    << "Other", SubstituteConfidence, << <<"Other", SubstituteConfidence>> >> >>

\* History of one analyze_clauses call: what every collaborator call did.
NoFaults ==
    [ classifier |-> <<>>,      \* per clause: "ok", "raise", or "late" (a fault after the append)
      batch      |-> "none",    \* the batched call: "ok", "missized", "unzippable" or "raise"
      item       |-> <<>>,      \* per clause, the per-item embedding call: "ok" or "raise"
      construct  |-> <<>>,      \* per zipped item, the ClauseAnalysis constructor: "ok" or "raise"
      escaped    |-> "no" ]     \* str(e) of the exception that reached the outer handler

\* No analyze_clause call yet.
NoSingle ==
    [ outcome   |-> "none",     \* "returned" or "InferenceError"
      clause    |-> <<>>,       \* the argument, as a one-element list
      calls     |-> <<>>,       \* the collaborator methods invoked, in order
      classifier |-> "none",    \* predict: "ok" or "raise"
      embedding |-> "none",     \* generate_embedding: "ok" or "raise"
      late      |-> FALSE,      \* a fault after the two collaborator calls
      warned    |-> FALSE,      \* the low-confidence warning was logged
      details   |-> <<>>,       \* details['clause_id'] of the InferenceError raised
      record    |-> <<>> ]      \* the record returned, as a one-element list

\* No get_low_confidence_clauses call yet.
NoLow == [ called |-> FALSE, threshold |-> 0, input |-> <<>>, out |-> <<>> ]

\* No get_analysis_summary call yet.
NoSummary == [ called |-> FALSE, threshold |-> 0, input |-> <<>>, out |-> <<>> ]

\* State after the constructor: it stores whatever confidence_threshold it is
\* given, unchecked.
Init ==
    /\ threshold \in ThresholdValues
    /\ single = NoSingle
    /\ analysesArg = <<>>
    /\ low = NoLow
    /\ summary = NoSummary
    /\ setCall = [ outcome |-> "none", arg |-> 0 ]
    /\ pc = "idle"
    /\ clauses = <<>>
    /\ i = 0
    /\ classifications = <<>>
    /\ embeddings = [ iterable |-> TRUE, items |-> <<>> ]
    /\ analyses = <<>>
    /\ classification_errors = 0
    /\ embedding_errors = 0
    /\ outcome = "none"
    /\ result = <<>>
    /\ faults = NoFaults
    /\ calls = <<>>
    /\ log = {}

\* ------------------------------------------------------------ set_confidence_threshold
\* Variant of the range check that rejects the endpoints.
ThresholdInRangeStrict(t) == ThresholdMin < t /\ t < ThresholdMax

\* The range check of set_confidence_threshold: 0.0 <= threshold <= 1.0.
ThresholdInRange(t) == ThresholdMin <= t /\ t <= ThresholdMax

\* set_confidence_threshold(t): callable at any time, also while an
\* analyze_clauses call is in flight (the threshold is shared, unlocked state).
set_confidence_threshold(t) ==
    /\ IF ~ThresholdInRange(t)
       THEN /\ setCall' = [ outcome |-> "ValueError", arg |-> t ]
            /\ UNCHANGED threshold
       ELSE /\ threshold' = t
            /\ setCall' = [ outcome |-> "ok", arg |-> t ]
    /\ UNCHANGED << batchVars, single, analysesArg, low, summary >>

\* ------------------------------------------------------------ analyze_clauses
Note(field, v) == [ faults EXCEPT ![field] = Append(@, v) ]

\* Entry of analyze_clauses: the empty list returns at once, any other list
\* enters Stage 1 with empty locals.
AnalyzeClausesBegin(cl) ==
    /\ pc = "idle"
    /\ clauses' = cl
    /\ faults' = NoFaults
    /\ classifications' = <<>>
    /\ embeddings' = [ iterable |-> TRUE, items |-> <<>> ]
    /\ analyses' = <<>>
    /\ classification_errors' = 0
    /\ embedding_errors' = 0
    /\ IF cl = <<>>
       THEN /\ pc' = "done"
            /\ i' = 0
            /\ outcome' = "returned"
            /\ result' = <<>>
       ELSE /\ pc' = "stage1"
            /\ i' = 1
            /\ outcome' = "none"
            /\ result' = <<>>
    /\ calls' = <<>>
    /\ log' = IF cl = <<>> THEN { << "warning", "no clauses provided", "" >> } ELSE {}
    /\ UNCHANGED callerVars

\* The warning Stage 1 logs for a successful classification whose confidence
\* is below the threshold current at that moment.
LowConfidenceWarning(confidence, clause_id) ==
    IF confidence < threshold
    THEN { << "warning", "low confidence", clause_id >> }
    ELSE {}

\* After the last clause of Stage 1: the warning that counts the failed
\* classifications, if there are any.
Stage1EndWarning(errors) ==
    IF i = Len(clauses) /\ errors > 0
    THEN { << "warning", "clauses failed classification", "" >> }
    ELSE {}

\* After the last clause of the per-item loop: the warning that counts the
\* failed embeddings, if there are any.
Stage2EndWarning(errors) ==
    IF i = Len(clauses) /\ errors > 0
    THEN { << "warning", "clauses failed embedding generation", "" >> }
    ELSE {}

\* Variant of HighErrorRate that also fires at exactly half.
HighErrorRateInclusive(total_errors, n) == 2 * total_errors >= n

\* The test of the high-error-rate message: total_errors > len(clauses) * 0.5.
HighErrorRate(total_errors, n) == 2 * total_errors > n

\* The for loop of Stage 1 moves to the next clause, or ends and Stage 2 starts.
Stage1Next ==
    IF i < Len(clauses)
    THEN pc' = "stage1" /\ i' = i + 1
    ELSE pc' = "stage2" /\ i' = 0

\* Variant of Stage1ClassifyOk that replaces a classification below the
\* threshold by the substitute.
Stage1ClassifyOkGated ==
    /\ pc = "stage1"
    /\ classifications' = Append(classifications,
                                 IF PredictOf(clauses[i].text)[2] < threshold
                                 THEN Stage1Substitute
                                 ELSE PredictOf(clauses[i].text))
    /\ faults' = Note("classifier", "ok")
    /\ Stage1Next
    /\ calls' = Append(calls, << "predict", clauses[i].clause_id >>)
    /\ log' = log \cup LowConfidenceWarning(PredictOf(clauses[i].text)[2], clauses[i].clause_id)
                   \cup Stage1EndWarning(classification_errors)
    /\ UNCHANGED << callerVars, clauses, embeddings, analyses,
                    classification_errors, embedding_errors, outcome, result >>

\* Stage 1, clause i: predict returns a triple, which is appended.
Stage1ClassifyOk ==
    /\ pc = "stage1"
    /\ classifications' = Append(classifications, PredictOf(clauses[i].text))
    /\ faults' = Note("classifier", "ok")
    /\ Stage1Next
    /\ calls' = Append(calls, << "predict", clauses[i].clause_id >>)
    /\ log' = log \cup LowConfidenceWarning(PredictOf(clauses[i].text)[2], clauses[i].clause_id)
                   \cup Stage1EndWarning(classification_errors)
    /\ UNCHANGED << callerVars, clauses, embeddings, analyses,
                    classification_errors, embedding_errors, outcome, result >>

\* Variant of Stage1ClassifyRaise whose handler counts the error and appends
\* nothing.
Stage1ClassifyRaiseDropsClause ==
    /\ pc = "stage1"
    /\ classification_errors' = classification_errors + 1
    /\ faults' = Note("classifier", "raise")
    /\ Stage1Next
    /\ calls' = Append(calls, << "predict", clauses[i].clause_id >>)
    /\ log' = log \cup { << "error", "error classifying clause", clauses[i].clause_id >> }
                   \cup Stage1EndWarning(classification_errors + 1)
    /\ UNCHANGED << callerVars, clauses, classifications, embeddings, analyses,
                    embedding_errors, outcome, result >>

\* Stage 1, clause i: predict raises; the handler appends the substitute.
Stage1ClassifyRaise ==
    /\ pc = "stage1"
    /\ classifications' = Append(classifications, Stage1Substitute)
    /\ classification_errors' = classification_errors + 1
    /\ faults' = Note("classifier", "raise")
    /\ Stage1Next
    /\ calls' = Append(calls, << "predict", clauses[i].clause_id >>)
    /\ log' = log \cup { << "error", "error classifying clause", clauses[i].clause_id >> }
                   \cup Stage1EndWarning(classification_errors + 1)
    /\ UNCHANGED << callerVars, clauses, embeddings, analyses,
                    embedding_errors, outcome, result >>

\* Stage 1, clause i: predict returns and the triple is appended, then the
\* low-confidence comparison or its warning raises inside the same try; the
\* handler appends the substitute as well.
Stage1LateFault ==
    /\ pc = "stage1"
    /\ classifications' = Append(Append(classifications, PredictOf(clauses[i].text)),
                                 Stage1Substitute)
    /\ classification_errors' = classification_errors + 1
    /\ faults' = Note("classifier", "late")
    /\ Stage1Next
    /\ calls' = Append(calls, << "predict", clauses[i].clause_id >>)
    /\ log' = log \cup { << "error", "error classifying clause", clauses[i].clause_id >> }
                   \cup Stage1EndWarning(classification_errors + 1)
    /\ UNCHANGED << callerVars, clauses, embeddings, analyses,
                    embedding_errors, outcome, result >>

\* What a batched embedding call that does not raise may return for the n
\* texts: a list aligned with them, each entry the text's vector or None; or
\* a list one shorter or one longer.
BatchReturns(cl) ==
    LET n == Len(cl)
        aligned == { [ k \in 1..n |-> IF k \in S THEN EmbeddingOf(cl[k].text) ELSE None ] :
                     S \in SUBSET (1..n) }
    IN  IF n = 0 THEN { <<>> }
        ELSE aligned \cup
             { [ k \in 1..(n - 1) |-> EmbeddingOf(cl[k].text) ],
               [ k \in 1..(n + 1) |-> EmbeddingOf(cl[Min(k, n)].text) ] }

\* Stage 2: generate_embeddings_batch returns a list.
Stage2BatchOk(embs) ==
    /\ pc = "stage2"
    /\ embeddings' = [ iterable |-> TRUE, items |-> embs ]
    /\ faults' = [ faults EXCEPT !.batch =
                      IF Len(embs) = Len(clauses) THEN "ok" ELSE "missized" ]
    /\ pc' = "stage3"
    /\ i' = 1
    /\ calls' = Append(calls, << "generate_embeddings_batch", "" >>)
    /\ log' = log
    /\ UNCHANGED << callerVars, clauses, classifications, analyses,
                    classification_errors, embedding_errors, outcome, result >>

\* Stage 2: generate_embeddings_batch returns a value that is not iterable.
Stage2BatchUnzippable ==
    /\ pc = "stage2"
    /\ embeddings' = [ iterable |-> FALSE, items |-> <<>> ]
    /\ faults' = [ faults EXCEPT !.batch = "unzippable" ]
    /\ pc' = "stage3"
    /\ i' = 1
    /\ calls' = Append(calls, << "generate_embeddings_batch", "" >>)
    /\ log' = log
    /\ UNCHANGED << callerVars, clauses, classifications, analyses,
                    classification_errors, embedding_errors, outcome, result >>

\* Variant of Stage2BatchRaise that tries the batched call a second time
\* before it falls back to the per-item loop.
Stage2BatchRaiseRetries ==
    /\ pc = "stage2"
    /\ embeddings' = [ iterable |-> TRUE, items |-> <<>> ]
    /\ faults' = [ faults EXCEPT !.batch = "raise" ]
    /\ pc' = "stage2item"
    /\ i' = 1
    /\ calls' = calls \o << << "generate_embeddings_batch", "" >>,
                            << "generate_embeddings_batch", "" >> >>
    /\ log' = log \cup { << "error", "error in batch embedding generation", "" >> }
    /\ UNCHANGED << callerVars, clauses, classifications, analyses,
                    classification_errors, embedding_errors, outcome, result >>

\* Stage 2: generate_embeddings_batch raises; the per-item loop starts.
Stage2BatchRaise ==
    /\ pc = "stage2"
    /\ embeddings' = [ iterable |-> TRUE, items |-> <<>> ]
    /\ faults' = [ faults EXCEPT !.batch = "raise" ]
    /\ pc' = "stage2item"
    /\ i' = 1
    /\ calls' = Append(calls, << "generate_embeddings_batch", "" >>)
    /\ log' = log \cup { << "error", "error in batch embedding generation", "" >> }
    /\ UNCHANGED << callerVars, clauses, classifications, analyses,
                    classification_errors, embedding_errors, outcome, result >>

Stage2ItemNext ==
    IF i < Len(clauses)
    THEN pc' = "stage2item" /\ i' = i + 1
    ELSE pc' = "stage3" /\ i' = 1

\* Per-item loop, clause i: generate_embedding returns the vector.
Stage2ItemOk ==
    /\ pc = "stage2item"
    /\ embeddings' = [ embeddings EXCEPT !.items = Append(@, EmbeddingOf(clauses[i].text)) ]
    /\ faults' = Note("item", "ok")
    /\ Stage2ItemNext
    /\ calls' = Append(calls, << "generate_embedding", clauses[i].clause_id >>)
    /\ log' = log \cup Stage2EndWarning(embedding_errors)
    /\ UNCHANGED << callerVars, clauses, classifications, analyses,
                    classification_errors, embedding_errors, outcome, result >>

\* Variant of Stage2ItemRaise that does not count the error.
Stage2ItemRaiseUncounted ==
    /\ pc = "stage2item"
    /\ embeddings' = [ embeddings EXCEPT !.items = Append(@, None) ]
    /\ faults' = Note("item", "raise")
    /\ Stage2ItemNext
    /\ calls' = Append(calls, << "generate_embedding", clauses[i].clause_id >>)
    /\ log' = log \cup { << "error", "error generating embedding", clauses[i].clause_id >> }
                   \cup Stage2EndWarning(embedding_errors)
    /\ UNCHANGED << callerVars, clauses, classifications, analyses,
                    classification_errors, embedding_errors, outcome, result >>

\* Per-item loop, clause i: generate_embedding raises.
Stage2ItemRaise ==
    /\ pc = "stage2item"
    /\ embeddings' = [ embeddings EXCEPT !.items = Append(@, None) ]
    /\ embedding_errors' = embedding_errors + 1
    /\ faults' = Note("item", "raise")
    /\ Stage2ItemNext
    /\ calls' = Append(calls, << "generate_embedding", clauses[i].clause_id >>)
    /\ log' = log \cup { << "error", "error generating embedding", clauses[i].clause_id >> }
                   \cup Stage2EndWarning(embedding_errors + 1)
    /\ UNCHANGED << callerVars, clauses, classifications, analyses,
                    classification_errors, outcome, result >>

\* Number of triples zip(clauses, classifications, embeddings) yields.
ZipLen == Min(Len(clauses), Min(Len(classifications), Len(embeddings.items)))

Stage3Next ==
    IF i < ZipLen
    THEN pc' = "stage3" /\ i' = i + 1
    ELSE pc' = "account" /\ i' = 0

\* Stage 3: zip() of a value that is not iterable raises TypeError, which no
\* handler inside the stages catches.
Stage3ZipRaise ==
    /\ pc = "stage3"
    /\ ~embeddings.iterable
    /\ faults' = [ faults EXCEPT !.escaped = "zip argument is not iterable" ]
    /\ pc' = "except"
    /\ UNCHANGED << calls, log >>
    /\ UNCHANGED << callerVars, clauses, i, classifications, embeddings,
                    analyses, classification_errors, embedding_errors, outcome, result >>

\* Stage 3: zip yields nothing.
Stage3Empty ==
    /\ pc = "stage3"
    /\ embeddings.iterable
    /\ ZipLen = 0
    /\ pc' = "account"
    /\ i' = 0
    /\ UNCHANGED << calls, log >>
    /\ UNCHANGED << callerVars, clauses, classifications, embeddings,
                    analyses, classification_errors, embedding_errors, outcome,
                    result, faults >>

\* Stage 3, zipped item i: the record is constructed and appended.
Stage3AssembleOk ==
    /\ pc = "stage3"
    /\ embeddings.iterable
    /\ i <= ZipLen
    /\ analyses' = Append(analyses,
                      ClauseAnalysis(clauses[i].clause_id, clauses[i].text,
                                     classifications[i][1], classifications[i][2],
                                     embeddings.items[i], classifications[i][3]))
    /\ faults' = Note("construct", "ok")
    /\ Stage3Next
    /\ UNCHANGED << calls, log >>
    /\ UNCHANGED << callerVars, clauses, classifications, embeddings,
                    classification_errors, embedding_errors, outcome, result >>

\* Stage 3, zipped item i: the constructor raises; the fallback record is
\* appended in its place.
Stage3ConstructRaise ==
    /\ pc = "stage3"
    /\ embeddings.iterable
    /\ i <= ZipLen
    /\ analyses' = Append(analyses,
                      _create_fallback_analysis(clauses[i], "construction failed"))
    /\ faults' = Note("construct", "raise")
    /\ Stage3Next
    /\ log' = log \cup { << "error", "error creating analysis", clauses[i].clause_id >>,
                         << "warning", "creating fallback analysis", clauses[i].clause_id >> }
    /\ UNCHANGED calls
    /\ UNCHANGED << callerVars, clauses, classifications, embeddings,
                    classification_errors, embedding_errors, outcome, result >>

\* Accounting after Stage 3, then return analyses.
AccountReturn ==
    /\ pc = "account"
    /\ result' = analyses
    /\ outcome' = "returned"
    /\ pc' = "done"
    /\ log' = log \cup
                 IF HighErrorRate(classification_errors + embedding_errors, Len(clauses))
                 THEN { << "error", "high error rate", "" >> }
                 ELSE {}
    /\ UNCHANGED calls
    /\ UNCHANGED << callerVars, clauses, i, classifications, embeddings,
                    analyses, classification_errors, embedding_errors, faults >>

\* Accounting after Stage 3 raises (the comparison of a confidence with the
\* threshold, or the logging): nothing inside the stages catches it.
AccountRaise ==
    /\ pc = "account"
    /\ faults' = [ faults EXCEPT !.escaped = "accounting failed" ]
    /\ pc' = "except"
    /\ UNCHANGED << calls, log >>
    /\ UNCHANGED << callerVars, clauses, i, classifications, embeddings,
                    analyses, classification_errors, embedding_errors, outcome, result >>

\* Variant of OuterFallbacks that keeps the records Stage 3 had assembled.
OuterFallbacksKeepPartial(cl, error_msg) ==
    [ k \in 1..Len(cl) |-> IF k <= Len(analyses)
                           THEN analyses[k]
                           ELSE _create_fallback_analysis(cl[k], error_msg) ]

\* The list the outer handler returns: one fallback record per clause.
OuterFallbacks(cl, error_msg) ==
    [ k \in 1..Len(cl) |-> _create_fallback_analysis(cl[k], error_msg) ]

\* Variant of OuterExcept that re-raises, as analyze_clause does for
\* InferenceError.
OuterExceptReraises ==
    /\ pc = "except"
    /\ outcome' = "raised"
    /\ pc' = "done"
    /\ log' = log \cup { << "error", "critical error in batch analysis", "" >> }
    /\ UNCHANGED calls
    /\ UNCHANGED << callerVars, clauses, i, classifications, embeddings,
                    analyses, classification_errors, embedding_errors, faults,
                    result >>

\* The outer except of analyze_clauses.
OuterExcept ==
    /\ pc = "except"
    /\ result' = OuterFallbacks(clauses, faults.escaped)
    /\ outcome' = "returned"
    /\ pc' = "done"
    /\ log' = log \cup { << "error", "critical error in batch analysis", "" >>,
                         << "warning", "returning fallback analyses for all clauses", "" >> }
                   \cup { << "warning", "creating fallback analysis", clauses[k].clause_id >> :
                           k \in 1..Len(clauses) }
    /\ UNCHANGED calls
    /\ UNCHANGED << callerVars, clauses, i, classifications, embeddings,
                    analyses, classification_errors, embedding_errors, faults >>

\* The caller is done with the returned list; the next call may start.
CallerContinues ==
    /\ pc = "done"
    /\ pc' = "idle"
    /\ clauses' = <<>>
    /\ i' = 0
    /\ classifications' = <<>>
    /\ embeddings' = [ iterable |-> TRUE, items |-> <<>> ]
    /\ analyses' = <<>>
    /\ classification_errors' = 0
    /\ embedding_errors' = 0
    /\ outcome' = "none"
    /\ result' = <<>>
    /\ faults' = NoFaults
    /\ calls' = <<>>
    /\ log' = {}
    /\ UNCHANGED callerVars

\* ------------------------------------------------------------ analyze_clause
\* Variant of AnalyzeClauseClassifierRaise without the except InferenceError
\* clause: the generic handler turns the failure into the fallback record.
AnalyzeClauseClassifierRaiseAbsorbed(clause) ==
    /\ single' = [ NoSingle EXCEPT
                     !.outcome = "returned",
                     !.clause = << clause >>,
                     !.calls = << "predict" >>,
                     !.classifier = "raise",
                     !.record = << _create_fallback_analysis(clause, "Failed to classify clause") >> ]
    /\ UNCHANGED << threshold, setCall, analysesArg, low, summary, batchVars >>

\* analyze_clause(clause): predict raises; the handler raises InferenceError
\* with the clause id in its details, and the outer handler re-raises it.
AnalyzeClauseClassifierRaise(clause) ==
    /\ single' = [ NoSingle EXCEPT !.outcome = "InferenceError",
                                   !.clause = << clause >>,
                                   !.calls = << "predict" >>,
                                   !.classifier = "raise",
                                   !.details = << clause.clause_id >> ]
    /\ UNCHANGED << threshold, setCall, analysesArg, low, summary, batchVars >>

\* The record analyze_clause builds from the classifier's triple and the
\* embedding (None when generate_embedding raised).
SingleRecord(clause, triple, embedding) ==
    ClauseAnalysis(clause.clause_id, clause.text, triple[1], triple[2],
                   embedding, triple[3])

\* Variant of AnalyzeClauseReturn in which a failed embedding call reaches
\* the generic handler.
AnalyzeClauseReturnEmbeddingFatal(clause, embedded) ==
    /\ single' = [ NoSingle EXCEPT
                     !.outcome = "returned",
                     !.clause = << clause >>,
                     !.calls = << "predict", "generate_embedding" >>,
                     !.classifier = "ok",
                     !.embedding = IF embedded THEN "ok" ELSE "raise",
                     !.warned = embedded /\ PredictOf(clause.text)[2] < threshold,
                     !.record = << IF embedded
                                   THEN SingleRecord(clause, PredictOf(clause.text),
                                                     EmbeddingOf(clause.text))
                                   ELSE _create_fallback_analysis(clause, "embedding failed") >> ]
    /\ UNCHANGED << threshold, setCall, analysesArg, low, summary, batchVars >>

\* analyze_clause(clause): predict returns, generate_embedding returns or
\* raises, the record is built and returned.
AnalyzeClauseReturn(clause, embedded) ==
    /\ single' = [ NoSingle EXCEPT
                     !.outcome = "returned",
                     !.clause = << clause >>,
                     !.calls = << "predict", "generate_embedding" >>,
                     !.classifier = "ok",
                     !.embedding = IF embedded THEN "ok" ELSE "raise",
                     !.warned = PredictOf(clause.text)[2] < threshold,
                     !.record = << SingleRecord(clause, PredictOf(clause.text),
                                       IF embedded THEN EmbeddingOf(clause.text)
                                                   ELSE None) >> ]
    /\ UNCHANGED << threshold, setCall, analysesArg, low, summary, batchVars >>

\* Variant of AnalyzeClauseLateFault in which the fault leaves analyze_clause
\* as an exception.
AnalyzeClauseLateFaultRaises(clause, embedded) ==
    /\ \E w \in IF PredictOf(clause.text)[2] < threshold THEN BOOLEAN ELSE { FALSE } :
           single' = [ NoSingle EXCEPT
                         !.outcome = "raised",
                         !.clause = << clause >>,
                         !.calls = << "predict", "generate_embedding" >>,
                         !.classifier = "ok",
                         !.embedding = IF embedded THEN "ok" ELSE "raise",
                         !.late = TRUE,
                         !.warned = w ]
    /\ UNCHANGED << threshold, setCall, analysesArg, low, summary, batchVars >>

\* analyze_clause(clause): predict returns, then something after the two
\* collaborator calls raises (the comparison, the warning, the constructor,
\* the debug message); the generic handler returns the fallback record. The
\* low-confidence warning has been logged only if the confidence is below the
\* threshold and the fault came after it.
AnalyzeClauseLateFault(clause, embedded) ==
    /\ \E w \in IF PredictOf(clause.text)[2] < threshold THEN BOOLEAN ELSE { FALSE } :
           single' = [ NoSingle EXCEPT
                         !.outcome = "returned",
                         !.clause = << clause >>,
                         !.calls = << "predict", "generate_embedding" >>,
                         !.classifier = "ok",
                         !.embedding = IF embedded THEN "ok" ELSE "raise",
                         !.late = TRUE,
                         !.warned = w,
                         !.record = << _create_fallback_analysis(clause, "unexpected error") >> ]
    /\ UNCHANGED << threshold, setCall, analysesArg, low, summary, batchVars >>

\* ------------------------------------------------------------ triage helpers
\* Variant of LowConfidenceFilter that keeps a confidence equal to the
\* threshold.
LowConfidenceFilterInclusive(records, thr) ==
    SelectSeq(records, LAMBDA a : a.confidence_score <= thr)

\* The list comprehension of get_low_confidence_clauses.
LowConfidenceFilter(records, thr) ==
    SelectSeq(records, LAMBDA a : a.confidence_score < thr)

\* get_low_confidence_clauses(analyses)
get_low_confidence_clauses ==
    /\ low' = [ called |-> TRUE, threshold |-> threshold, input |-> analysesArg,
                out |-> LowConfidenceFilter(analysesArg, threshold) ]
    /\ UNCHANGED << threshold, setCall, single, analysesArg, summary, batchVars >>

\* The empty dict.
EmptyDict == [ t \in {} |-> 0 ]

\* The loop that counts the clause types:
\* type_distribution[clause_type] = type_distribution.get(clause_type, 0) + 1.
RECURSIVE TypeDistribution(_)
TypeDistribution(records) ==
    IF records = <<>>
    THEN EmptyDict
    ELSE LET d == TypeDistribution(SubSeq(records, 1, Len(records) - 1))
             clause_type == records[Len(records)].clause_type
         IN  [ t \in DOMAIN d \cup { clause_type } |->
                 IF t = clause_type
                 THEN (IF t \in DOMAIN d THEN d[t] ELSE 0) + 1
                 ELSE d[t] ]

\* sum(a.confidence_score for a in analyses), in hundredths.
RECURSIVE SumConfidence(_)
SumConfidence(records) ==
    IF records = <<>>
    THEN 0
    ELSE SumConfidence(SubSeq(records, 1, Len(records) - 1))
         + records[Len(records)].confidence_score

\* round(sum / total, 3), in thousandths: the thousandths nearest to the
\* quotient. When the quotient lies exactly between two thousandths the
\* result depends on the binary representation of the quotient, so both
\* neighbours are possible.
RoundedAverages(sum, total) ==
    LET q == (10 * sum) \div total
    IN  { r \in { q, q + 1 } :
            /\ 2 * (r * total - 10 * sum) <= total
            /\ 2 * (10 * sum - r * total) <= total }

\* Variant of LowConfidenceCount that counts a confidence equal to the
\* threshold.
LowConfidenceCountInclusive(records, thr) ==
    Len(SelectSeq(records, LAMBDA a : a.confidence_score <= thr))

\* sum(1 for a in analyses if a.confidence_score < self.confidence_threshold)
LowConfidenceCount(records, thr) ==
    Len(SelectSeq(records, LAMBDA a : a.confidence_score < thr))

\* The dict get_analysis_summary returns for the empty list.
EmptySummary ==
    [ total_clauses |-> 0,
      avg_confidence |-> 0,
      low_confidence_count |-> 0,
      clause_type_distribution |-> EmptyDict ]

\* get_analysis_summary(analyses)
get_analysis_summary ==
    /\ \E avg \in IF analysesArg = <<>>
                  THEN { 0 }
                  ELSE RoundedAverages(SumConfidence(analysesArg), Len(analysesArg)) :
           summary' =
               [ called |-> TRUE, threshold |-> threshold, input |-> analysesArg,
                 out |-> << IF analysesArg = <<>>
                            THEN EmptySummary
                            ELSE [ total_clauses |-> Len(analysesArg),
                                   avg_confidence |-> avg,
                                   low_confidence_count |->
                                       LowConfidenceCount(analysesArg, threshold),
                                   clause_type_distribution |->
                                       TypeDistribution(analysesArg) ] >> ]
    /\ UNCHANGED << threshold, setCall, single, analysesArg, low, batchVars >>

\* Records a caller may hold: for clause a an unimpaired record, for b a
\* record without embedding, for c a record with the Stage-1 substitute, for
\* d a fallback record and an unimpaired one.
RecordPool ==
    { SingleRecord(PoolOrder[1], PredictOf("t1"), EmbeddingOf("t1")),
      SingleRecord(PoolOrder[2], PredictOf("t2"), None),
      SingleRecord(PoolOrder[3], Stage1Substitute, EmbeddingOf("t1")),
      _create_fallback_analysis(PoolOrder[4], "error"),
      SingleRecord(PoolOrder[4], PredictOf("t3"), EmbeddingOf("t3")) }

\* Lists of up to MaxAnalyses records, a record possibly more than once.
RecordLists == UNION { [ 1..n -> RecordPool ] : n \in 0..MaxAnalyses }

Next ==
    \/ \E t \in ThresholdValues : set_confidence_threshold(t)
    \/ \E cl \in ClauseLists : AnalyzeClausesBegin(cl)
    \/ Stage1ClassifyOk
    \/ Stage1ClassifyRaise
    \/ Stage1LateFault
    \/ \E embs \in BatchReturns(clauses) : Stage2BatchOk(embs)
    \/ Stage2BatchUnzippable
    \/ Stage2BatchRaise
    \/ Stage2ItemOk
    \/ Stage2ItemRaise
    \/ Stage3ZipRaise
    \/ Stage3Empty
    \/ Stage3AssembleOk
    \/ Stage3ConstructRaise
    \/ AccountReturn
    \/ AccountRaise
    \/ OuterExcept
    \/ CallerContinues

\* The batch pipeline, with the threshold changed at any point of it.
Spec == Init /\ [][Next]_vars

\* The single-clause path.
NextSingle ==
    \/ \E t \in ThresholdValues : set_confidence_threshold(t)
    \/ \E c \in Range(PoolOrder) : AnalyzeClauseClassifierRaise(c)
    \/ \E c \in Range(PoolOrder), e \in BOOLEAN : AnalyzeClauseReturn(c, e)
    \/ \E c \in Range(PoolOrder), e \in BOOLEAN : AnalyzeClauseLateFault(c, e)

SpecSingle == Init /\ [][NextSingle]_vars

\* Both analysis paths under one changing threshold. The two paths share no
\* state but the threshold, so a behaviour makes its analyze_clause calls
\* while no analyze_clauses call is in flight, and the record of the last
\* analyze_clause call is observed before the first analyze_clauses call.
NextRecords ==
    \/ single = NoSingle /\ Next
    \/ pc = "idle" /\ \E c \in Range(PoolOrder) : AnalyzeClauseClassifierRaise(c)
    \/ pc = "idle" /\ \E c \in Range(PoolOrder), e \in BOOLEAN : AnalyzeClauseReturn(c, e)
    \/ pc = "idle" /\ \E c \in Range(PoolOrder), e \in BOOLEAN : AnalyzeClauseLateFault(c, e)
    \/ single # NoSingle /\ \E t \in ThresholdValues : set_confidence_threshold(t)

SpecRecords == Init /\ [][NextRecords]_vars

\* The triage helpers, on every list of records up to the bound.
InitTriage ==
    /\ threshold \in ThresholdValues
    /\ setCall = [ outcome |-> "none", arg |-> 0 ]
    /\ analysesArg \in RecordLists
    /\ low = NoLow
    /\ summary = NoSummary
    /\ single = NoSingle
    /\ pc = "idle"
    /\ clauses = <<>>
    /\ i = 0
    /\ classifications = <<>>
    /\ embeddings = [ iterable |-> TRUE, items |-> <<>> ]
    /\ analyses = <<>>
    /\ classification_errors = 0
    /\ embedding_errors = 0
    /\ outcome = "none"
    /\ result = <<>>
    /\ faults = NoFaults
    /\ calls = <<>>
    /\ log = {}

NextTriage ==
    \/ \E t \in ThresholdValues : set_confidence_threshold(t)
    \/ get_low_confidence_clauses
    \/ get_analysis_summary

SpecTriage == InitTriage /\ [][NextTriage]_vars

\* ====================================================================
\* Properties
\* ====================================================================

\* The fallback record of a clause, written out field by field.
IsFallbackOf(rec, clause) ==
    rec = [ clause_id |-> clause.clause_id,
            clause_text |-> clause.text,
            clause_type |-> "Other",
            confidence_score |-> 0,
            embeddings |-> None,
            alternative_types |-> << <<"Other", 0>> >> ]

\* Indices of the clauses whose classifier call raised.
F == { k \in 1..Len(faults.classifier) : faults.classifier[k] = "raise" }

\* Indices of the clauses whose per-item embedding call raised.
ItemFailures == { k \in 1..Len(faults.item) : faults.item[k] = "raise" }

\* An analyze_clauses call on a non-empty list has returned.
BatchDone == pc = "done" /\ clauses # <<>>

\* C1: for every non-empty list of clauses and every pattern of classifier
\* failures, batched embedding success (one entry per text, as the
\* collaborator's contract has it) or failure, and per-item embedding
\* failures, analyze_clauses returns exactly len(clauses) records, and the
\* record at index k carries the clause_id and the text of clauses[k].
\* The classifier's late faults, constructor failures and escaping exceptions
\* are covered as well; only a batched call that returns a list of another
\* length is not covered here.
C1_SameLengthIndexAligned ==
    (BatchDone /\ faults.batch # "missized") =>
        /\ outcome = "returned"
        /\ Len(result) = Len(clauses)
        /\ \A k \in 1..Len(clauses) :
              /\ result[k].clause_id = clauses[k].clause_id
              /\ result[k].clause_text = clauses[k].text

\* A call on two clauses in which one classifier call raised, the batched
\* embedding call raised and one per-item call raised, returned normally.
C1_Witness ==
    /\ BatchDone
    /\ Len(clauses) = 2
    /\ F = { 2 }
    /\ faults.batch = "raise"
    /\ ItemFailures = { 1 }
    /\ faults.escaped = "no"
    /\ Len(result) = 2

\* A step of the call in flight.
BatchStep ==
    \/ Stage1ClassifyOk \/ Stage1ClassifyRaise \/ Stage1LateFault
    \/ \E embs \in BatchReturns(clauses) : Stage2BatchOk(embs)
    \/ Stage2BatchUnzippable \/ Stage2BatchRaise
    \/ Stage2ItemOk \/ Stage2ItemRaise
    \/ Stage3ZipRaise \/ Stage3Empty \/ Stage3AssembleOk \/ Stage3ConstructRaise
    \/ AccountReturn \/ AccountRaise \/ OuterExcept

\* C2: analyze_clauses never raises to its caller: whatever the classifier,
\* the batched and the per-item embedding calls and the record constructor
\* of Stage 3 do, the call is never stuck, never ends with an exception, and
\* ends by returning a list.
C2_NeverRaises ==
    /\ outcome # "raised"
    /\ pc = "done" => outcome = "returned"
    /\ pc \notin { "idle", "done" } => ENABLED BatchStep

\* A call returned although a classifier call, the batched embedding call, a
\* per-item embedding call and a Stage-3 constructor call all raised.
C2_Witness ==
    /\ BatchDone
    /\ outcome = "returned"
    /\ F # {}
    /\ faults.batch = "raise"
    /\ ItemFailures # {}
    /\ \E k \in 1..Len(faults.construct) : faults.construct[k] = "raise"

\* C3: in analyze_clause, whenever the classifier call fails the call ends
\* by raising InferenceError carrying the clause's id, returns no record, and
\* never invokes the embedding collaborator.
C3_ClassifierFailureRaises ==
    single.classifier = "raise" =>
        /\ single.outcome = "InferenceError"
        /\ single.details = << single.clause[1].clause_id >>
        /\ single.record = <<>>
        /\ \A k \in 1..Len(single.calls) : single.calls[k] # "generate_embedding"

\* An analyze_clause call on clause b whose classifier call raised.
C3_Witness ==
    /\ single.classifier = "raise"
    /\ single.clause = << PoolOrder[2] >>
    /\ single.outcome = "InferenceError"

\* C4: in analyze_clause, when the classifier succeeds and the embedding
\* call fails (and nothing else does), the call returns a record whose
\* clause_type, confidence_score and alternative_types are the classifier's
\* outputs and whose embeddings field is None; it neither raises nor returns
\* the fallback record.
C4_EmbeddingFailureKeepsClassification ==
    (single.classifier = "ok" /\ single.embedding = "raise" /\ ~single.late) =>
        /\ single.outcome = "returned"
        /\ Len(single.record) = 1
        /\ LET rec == single.record[1]
               clause == single.clause[1]
               triple == PredictOf(clause.text)
           IN  /\ rec.clause_id = clause.clause_id
               /\ rec.clause_text = clause.text
               /\ rec.clause_type = triple[1]
               /\ rec.confidence_score = triple[2]
               /\ rec.alternative_types = triple[3]
               /\ rec.embeddings = None
               /\ ~IsFallbackOf(rec, clause)

\* An analyze_clause call on clause d (classified with confidence 0.30) whose
\* embedding call raised.
C4_Witness ==
    /\ single.classifier = "ok"
    /\ single.embedding = "raise"
    /\ ~single.late
    /\ single.clause = << PoolOrder[4] >>
    /\ single.outcome = "returned"

\* C5: _create_fallback_analysis always returns a record with clause_type
\* "Other", confidence_score 0.0, no embedding, alternative_types
\* [("Other", 0.0)], and clause_id and clause_text copied from the clause,
\* whatever the error message: the records the Stage-3 handler builds (message
\* "construction failed") and the ones the outer handler builds (messages
\* "zip argument is not iterable" and "accounting failed") all have this form.
C5_FallbackDeterministic ==
    /\ \A k \in 1..Len(analyses) :
          faults.construct[k] = "raise" => IsFallbackOf(analyses[k], clauses[k])
    /\ (pc = "done" /\ faults.escaped # "no") =>
          /\ Len(result) = Len(clauses)
          /\ \A k \in 1..Len(result) : IsFallbackOf(result[k], clauses[k])

\* The outer handler built fallback records from one message after the Stage-3
\* handler had built one from another.
C5_Witness ==
    /\ pc = "done"
    /\ faults.escaped = "accounting failed"
    /\ Len(result) = 2
    /\ \E k \in 1..Len(analyses) : faults.construct[k] = "raise"

\* The triple Stage 1 substitutes, written out.
IsSubstitute(triple) == triple = << "Other", 50, << <<"Other", 50>> >> >>

\* Stage 1 has run for every clause, and only classifier calls failed in it.
Stage1Over ==
    /\ clauses # <<>>
    /\ Len(faults.classifier) = Len(clauses)
    /\ pc # "stage1"
    /\ \A k \in 1..Len(clauses) : faults.classifier[k] # "late"

\* The returned record at k was assembled by Stage 3 from the three lists.
Assembled(k) ==
    /\ pc = "done"
    /\ faults.escaped = "no"
    /\ k \in 1..Len(result)
    /\ faults.construct[k] = "ok"

\* C6: with F the clauses whose classifier call fails in Stage 1, each clause
\* in F has the triple ("Other", 0.5, [("Other", 0.5)]) (in the list Stage 1
\* leaves and in its returned record), every other clause has the triple its
\* own classifier call returned, and the classification-error counter at the
\* end of Stage 1 is |F|; a successful classification of low confidence is not
\* counted.  The cases are the calls in which the classifier calls are
\* the only thing that fails in Stage 1; a record is compared where Stage 3
\* assembled it.
C6_Stage1Substitution ==
    Stage1Over =>
        /\ classification_errors = Cardinality(F)
        /\ Len(classifications) = Len(clauses)
        /\ \A k \in 1..Len(clauses) :
              /\ k \in F => IsSubstitute(classifications[k])
              /\ k \notin F => classifications[k] = PredictOf(clauses[k].text)
              /\ Assembled(k) =>
                    /\ result[k].clause_type = classifications[k][1]
                    /\ result[k].confidence_score = classifications[k][2]
                    /\ result[k].alternative_types = classifications[k][3]
                    /\ k \in F => result[k].confidence_score = 50

\* The list <<d, c>> under the never-changed threshold 0.75: d was classified
\* with confidence 0.30, the classifier raised for c, and both records were
\* assembled and returned.
C6_Witness ==
    /\ Stage1Over
    /\ threshold = DefaultThreshold
    /\ setCall.outcome = "none"
    /\ Len(clauses) = 2
    /\ clauses[1].clause_id = "d"
    /\ F = { 2 }
    /\ classification_errors = 1
    /\ Assembled(1)
    /\ Assembled(2)

\* What Stage 1 leaves in classifications, from the classifier's outcomes
\* alone.
RECURSIVE Stage1Expected(_)
Stage1Expected(k) ==
    IF k = 0 THEN <<>>
    ELSE Stage1Expected(k - 1) \o
         ( CASE faults.classifier[k] = "ok"    -> << PredictOf(clauses[k].text) >>
             [] faults.classifier[k] = "raise" -> << << "Other", 50, << <<"Other", 50>> >> >> >>
             [] OTHER -> << PredictOf(clauses[k].text),
                            << "Other", 50, << <<"Other", 50>> >> >> >> )

\* The per-item loop of Stage 2 has run for every clause.
PerItemOver ==
    /\ faults.batch = "raise"
    /\ Len(faults.item) = Len(clauses)
    /\ pc # "stage2item"

\* C7: when the batched embedding call fails, each clause gets exactly one
\* per-item call; a clause whose call succeeds gets that vector, a clause
\* whose call fails gets None, the embedding-error counter is the number of
\* failed per-item calls, and the classification fields of every record are
\* what Stage 1 determined, whatever the embedding calls did.
C7_PerItemRetry ==
    /\ PerItemOver =>
          /\ Len(embeddings.items) = Len(clauses)
          /\ embedding_errors = Cardinality(ItemFailures)
          /\ \A k \in 1..Len(clauses) :
                /\ embeddings.items[k] =
                      IF k \in ItemFailures THEN None ELSE EmbeddingOf(clauses[k].text)
                /\ Assembled(k) => result[k].embeddings = embeddings.items[k]
    /\ faults.batch # "raise" => embedding_errors = 0
    /\ \A k \in 1..Len(result) :
          Assembled(k) =>
             LET triple == Stage1Expected(Len(faults.classifier))[k]
             IN  /\ result[k].clause_type = triple[1]
                 /\ result[k].confidence_score = triple[2]
                 /\ result[k].alternative_types = triple[3]

\* The batched call raised for <<a, b>>, the per-item call succeeded for a
\* and raised for b, and both records were assembled and returned.
C7_Witness ==
    /\ PerItemOver
    /\ Len(clauses) = 2
    /\ ItemFailures = { 2 }
    /\ embedding_errors = 1
    /\ Assembled(1)
    /\ Assembled(2)
    /\ result[1].embeddings = EmbeddingOf("t1")
    /\ result[2].embeddings = None

\* C8: if an exception escapes the three stages, analyze_clauses returns
\* exactly one fallback record ("Other", 0.0, no embedding) per input clause,
\* in input order, and no record built from the partial results.
C8_OuterHandlerAllFallback ==
    (pc = "done" /\ faults.escaped # "no") =>
        /\ outcome = "returned"
        /\ Len(result) = Len(clauses)
        /\ \A k \in 1..Len(clauses) : IsFallbackOf(result[k], clauses[k])

\* The exception escaped after Stage 3 had assembled two records that are
\* not fallback records.
C8_Witness ==
    /\ pc = "done"
    /\ faults.escaped # "no"
    /\ Len(clauses) = 2
    /\ Len(analyses) = 2
    /\ \A k \in 1..2 : ~IsFallbackOf(analyses[k], clauses[k])

\* C9: set_confidence_threshold with a value outside [0.0, 1.0] fails with an
\* error and leaves the threshold as it was; with a value inside, the
\* endpoints included, it succeeds and the threshold is that value, and no
\* other step changes the threshold.
C9_SetThreshold ==
    [][ /\ setCall' # setCall =>
              IF 0 <= setCall'.arg /\ setCall'.arg <= 100
              THEN setCall'.outcome = "ok" /\ threshold' = setCall'.arg
              ELSE setCall'.outcome = "ValueError" /\ threshold' = threshold
        /\ setCall' = setCall => threshold' = threshold ]_vars

\* During a batch call, a set_confidence_threshold(1.1) has failed after a
\* set_confidence_threshold(1.0) had succeeded.
C9_Witness ==
    /\ setCall = [ outcome |-> "ValueError", arg |-> 110 ]
    /\ threshold = 100
    /\ pc = "stage3"

\* Positions of the records of a list whose confidence is below thr.
LowPositions(records, thr) ==
    { k \in 1..Len(records) : records[k].confidence_score < thr }

\* C10: get_low_confidence_clauses returns exactly the records whose
\* confidence_score is strictly below the threshold current at the call, in
\* their original relative order (a record whose confidence equals the
\* threshold is left out), and the input list is not modified.
C10_LowConfidenceFilter ==
    /\ [](low.called =>
            LET P == LowPositions(low.input, low.threshold)
            IN  /\ Len(low.out) = Cardinality(P)
                /\ \A k \in P :
                      low.out[Cardinality({ j \in P : j <= k })] = low.input[k])
    /\ [][low' # low => /\ low'.input = analysesArg
                        /\ low'.threshold = threshold
                        /\ analysesArg' = analysesArg]_vars

\* Under threshold 0.75 the list of confidences [0.5, 0.75, 0.3] was
\* filtered: the first and the third record came back, in that order.
C10_Witness ==
    /\ low.called
    /\ low.threshold = 75
    /\ Len(low.input) = 3
    /\ low.input[1].confidence_score = 50
    /\ low.input[2].confidence_score = 75
    /\ low.input[3].confidence_score = 30
    /\ low.out = << low.input[1], low.input[3] >>

\* ---------------------------------------------------------------------------
\* C11. In a call of analyze_clauses that reaches its return statement, the
\* high-error-rate message is logged exactly when classification_errors +
\* embedding_errors is more than half the number of input clauses, and the
\* list returned is the list Stage 3 assembled, with or without the message.
HighErrorRateLogged == << "error", "high error rate", "" >> \in log

C11_HighErrorRateWarning ==
    (BatchDone /\ faults.escaped = "no" /\ clauses # <<>>) =>
        /\ HighErrorRateLogged <=>
               (2 * (classification_errors + embedding_errors) > Len(clauses))
        /\ result = analyses
        /\ Len(result) = Len(faults.construct)

\* A call on two clauses with exactly one error returns without the message,
\* one with two errors returns with it.
C11_Witness ==
    /\ BatchDone /\ faults.escaped = "no" /\ Len(clauses) = 2
    /\ classification_errors + embedding_errors = 1
    /\ ~HighErrorRateLogged
    /\ Len(result) = 2

\* ---------------------------------------------------------------------------
\* C12. A call of analyze_clause whose classifier call returned never ends
\* with an exception: it returns a record, and when something after the two
\* collaborator calls failed that record is the fallback record of the
\* clause. A call that ends with an exception is one whose classifier call
\* raised, and the exception is InferenceError.
C12_OnlyClassifierFailureRaises ==
    single.outcome # "none" =>
        /\ single.classifier = "ok" =>
               /\ single.outcome = "returned"
               /\ Len(single.record) = 1
               /\ single.record[1].clause_id = single.clause[1].clause_id
        /\ single.late => IsFallbackOf(single.record[1], single.clause[1])
        /\ single.outcome # "returned" =>
               /\ single.outcome = "InferenceError"
               /\ single.classifier = "raise"
               /\ single.record = <<>>

\* The classifier returned for clause b, the embedding was generated, a later
\* step failed, and the caller holds the fallback record of b.
C12_Witness ==
    /\ single.outcome = "returned"
    /\ single.classifier = "ok"
    /\ single.embedding = "ok"
    /\ single.late
    /\ single.clause = << PoolOrder[2] >>
    /\ single.record = << _create_fallback_analysis(PoolOrder[2], "unexpected error") >>

\* ---------------------------------------------------------------------------
\* A record the caller cannot take at face value: no embedding, the Stage-1
\* substitute ("Other", 0.5) or the fallback classification ("Other", 0.0).
Degraded(rec) ==
    \/ rec.embeddings = None
    \/ rec.clause_type = "Other" /\ rec.confidence_score = SubstituteConfidence
    \/ rec.clause_type = "Other" /\ rec.confidence_score = FallbackConfidence

\* classification_errors or embedding_errors was incremented for clause k.
CountedFor(k) ==
    \/ k <= Len(faults.classifier) /\ faults.classifier[k] \in { "raise", "late" }
    \/ k <= Len(faults.item) /\ faults.item[k] = "raise"

\* An error or a warning naming the clause was logged.
LoggedFor(clause_id) ==
    \E e \in log : e[1] \in { "error", "warning" } /\ e[3] = clause_id

\* C13. In a call of analyze_clauses that has ended, every returned record
\* that is degraded (no embedding, the Stage-1 substitute, the fallback
\* classification) belongs to a clause for which classification_errors or
\* embedding_errors was incremented or an error or warning was logged, also
\* when the batched embedding call returned a list with absent entries.
C13_DegradedIsObservable ==
    BatchDone =>
        \A k \in 1..Len(result) :
            Degraded(result[k]) => CountedFor(k) \/ LoggedFor(result[k].clause_id)

\* ---------------------------------------------------------------------------
\* Number of records of the list whose clause_type is t.
TypeCount(records, t) ==
    Cardinality({ k \in 1..Len(records) : records[k].clause_type = t })

\* Sum of the counts of a type distribution.
RECURSIVE SumCounts(_, _)
SumCounts(d, types) ==
    IF types = {}
    THEN 0
    ELSE LET t == CHOOSE x \in types : TRUE
         IN  d[t] + SumCounts(d, types \ { t })

\* C14. get_analysis_summary on the empty list returns total 0, average 0.0,
\* low-confidence count 0 and an empty distribution. On a non-empty list the
\* total is the number of records, the low-confidence count is the number of
\* records get_low_confidence_clauses returns under the same threshold, the
\* distribution maps each clause_type that occurs to its number of
\* occurrences, and the counts add up to the total.
C14_AnalysisSummary ==
    summary.called =>
        LET records == summary.input
            o == summary.out[1]
            d == o.clause_type_distribution
        IN  IF records = <<>>
            THEN /\ o.total_clauses = 0
                 /\ o.avg_confidence = 0
                 /\ o.low_confidence_count = 0
                 /\ DOMAIN d = {}
            ELSE /\ o.total_clauses = Len(records)
                 /\ o.low_confidence_count =
                        Len(LowConfidenceFilter(records, summary.threshold))
                 /\ DOMAIN d = { records[k].clause_type : k \in 1..Len(records) }
                 /\ \A t \in DOMAIN d : d[t] = TypeCount(records, t)
                 /\ SumCounts(d, DOMAIN d) = o.total_clauses

\* A summary of three records of three types, one of them exactly at the
\* threshold 0.75 and one below it.
C14_Witness ==
    /\ summary.called
    /\ summary.threshold = DefaultThreshold
    /\ Len(summary.input) = 3
    /\ summary.input[1].confidence_score = 75
    /\ summary.input[2].confidence_score = 50
    /\ summary.input[3].confidence_score = 92
    /\ summary.out[1].low_confidence_count = 1
    /\ summary.out[1].total_clauses = 3
    /\ Cardinality(DOMAIN summary.out[1].clause_type_distribution) = 3

\* ---------------------------------------------------------------------------
\* The triples Stage 1 can have produced for clause k, given what happened in
\* its iteration.
ProducedFor(k) ==
    CASE faults.classifier[k] = "ok"    -> { PredictOf(clauses[k].text) }
      [] faults.classifier[k] = "raise" -> { Stage1Substitute }
      [] OTHER -> { PredictOf(clauses[k].text), Stage1Substitute }

\* C15. When Stage 3 starts, classifications has exactly one entry per input
\* clause and the entry at i was produced for clauses[i], wherever an
\* iteration of Stage 1 failed: in the classifier call, or in the
\* low-confidence comparison and warning that follow the append.
C15_ClassificationsAligned ==
    (pc = "stage3" /\ clauses # <<>>) =>
        /\ Len(classifications) = Len(clauses)
        /\ \A k \in 1..Len(clauses) :
               k <= Len(classifications) => classifications[k] \in ProducedFor(k)

\* ---------------------------------------------------------------------------
\* C16. A call of analyze_clauses on a non-empty list returns as many records
\* as it was given clauses, whatever the number of vectors a batched
\* embedding call that did not raise returned.
C16_OneRecordPerClause ==
    (BatchDone /\ faults.batch \in { "ok", "missized" }) =>
        Len(result) = Len(clauses)

\* ---------------------------------------------------------------------------
\* The embeddings Stage 3 reads, from the outcomes of the embedding calls.
ExpectedEmbeddings ==
    IF faults.batch = "raise"
    THEN [ k \in 1..Len(faults.item) |->
             IF faults.item[k] = "ok" THEN EmbeddingOf(clauses[k].text) ELSE None ]
    ELSE embeddings.items

\* The records of an ended analyze_clauses call, from the clauses and the
\* outcomes of the calls it made, without the threshold.
ExpectedRecords ==
    IF faults.escaped # "no"
    THEN [ k \in 1..Len(clauses) |-> _create_fallback_analysis(clauses[k], faults.escaped) ]
    ELSE LET cls == Stage1Expected(Len(clauses))
         IN  [ k \in 1..Len(faults.construct) |->
                 IF faults.construct[k] = "ok"
                 THEN ClauseAnalysis(clauses[k].clause_id, clauses[k].text,
                                     cls[k][1], cls[k][2],
                                     ExpectedEmbeddings[k], cls[k][3])
                 ELSE _create_fallback_analysis(clauses[k], "construction failed") ]

\* The record of an ended analyze_clause call, from the clause and the
\* outcomes of the calls it made, without the threshold.
ExpectedSingle ==
    IF single.classifier = "raise"
    THEN <<>>
    ELSE IF single.late
         THEN << _create_fallback_analysis(single.clause[1], "unexpected error") >>
         ELSE << ClauseAnalysis(single.clause[1].clause_id, single.clause[1].text,
                                PredictOf(single.clause[1].text)[1],
                                PredictOf(single.clause[1].text)[2],
                                IF single.embedding = "ok"
                                THEN EmbeddingOf(single.clause[1].text)
                                ELSE None,
                                PredictOf(single.clause[1].text)[3]) >>

CallCount(method) ==
    Cardinality({ k \in 1..Len(calls) : calls[k][1] = method })

\* The first m clauses, each as one call of the method.
CallsInOrder(method, m) ==
    [ k \in 1..m |-> << method, clauses[k].clause_id >> ]

\* C18. In one call of analyze_clauses on a non-empty list the classifier is
\* called once per clause in input order, and all these calls come before
\* any embedding call; the batched embedding call is made exactly once; the
\* per-item embedding calls are made only after the batched call raised,
\* then once per clause in input order, and a per-item call that raised is
\* not repeated.
C18_CallOrder ==
    LET np == CallCount("predict")
        nb == CallCount("generate_embeddings_batch")
        ni == CallCount("generate_embedding")
        n  == Len(clauses)
    IN  /\ np <= n /\ nb <= 1 /\ ni <= n
        /\ calls = CallsInOrder("predict", np)
                   \o (IF nb = 0 THEN <<>> ELSE << << "generate_embeddings_batch", "" >> >>)
                   \o CallsInOrder("generate_embedding", ni)
        /\ nb + ni > 0 => np = n
        /\ ni > 0 => nb = 1 /\ faults.batch = "raise"
        /\ pc \in { "stage3", "account", "except" } \/ BatchDone =>
               /\ np = n
               /\ nb = 1
               /\ ni = IF faults.batch = "raise" THEN n ELSE 0

\* Two clauses, the batched call raised, the first per-item call raised and
\* the second returned: five calls in all, in this order.
C18_Witness ==
    /\ BatchDone
    /\ clauses = << PoolOrder[1], PoolOrder[2] >>
    /\ faults.batch = "raise"
    /\ faults.item = << "raise", "ok" >>
    /\ calls = << << "predict", "a" >>, << "predict", "b" >>,
                  << "generate_embeddings_batch", "" >>,
                  << "generate_embedding", "a" >>, << "generate_embedding", "b" >> >>

\* ---------------------------------------------------------------------------
\* C19. The configured threshold lies in [0.0, 1.0] in every reachable state:
\* for every value given to the constructor as confidence_threshold and
\* after every sequence of set_confidence_threshold calls, accepted or
\* rejected.
C19_ThresholdAlwaysInRange ==
    ThresholdMin <= threshold /\ threshold <= ThresholdMax

=============================================================================
